---- MODULE Spec2Model ----
(***************************************************************************)
(* A model of the sarjan workspace store (src/src/sarjan/base.py): the     *)
(* Workspace graph of Documents and Connections, the address parser, the   *)
(* cascading metadata-key deletion and the save/load codec.                *)
(*                                                                         *)
(* Python strings are sequences of one-character strings, so that          *)
(* str.split(":") is computed and not assumed.  A node key of the graph is *)
(* either a str or a pathlib.Path: Path("a") and "a" are different keys of *)
(* the networkx node dictionary (they are unequal and hash differently).   *)
(* The filesystem adapter is the external collaborator of spec section 6:  *)
(* a path argument names a file by its text.                               *)
(***************************************************************************)
EXTENDS Integers, Sequences, FiniteSets, TLC

VARIABLES
    nodes,      \* graph.nodes: node key -> metadata of the node's Document
    edges,      \* graph.edges: {u, v} -> connlist (sequence of Connections)
    graph_meta, \* graph.graph: the workspace metadata
    files,      \* texts of the document files present in the filesystem
    save_file,  \* workspace.json: [exists, text]; text holds 0 or 1 JSON document
    last        \* the last operation and its outcome: [op, result]

vars == <<nodes, edges, graph_meta, files, save_file, last>>

----------------------------------------------------------------------------
(* Bounds and input domains *)

MaxConns == 2   \* connections held by the graph at any time

MaxLen == 4     \* characters of an address handed to the parser alone

Names == {<<"a">>, <<"b">>}          \* document path texts
Tags == {<<"t">>}                    \* metadata keys
Values == {"v"}                      \* metadata values written by callers
WsKeys == {<<"w">>}                  \* workspace metadata keys

StrKey(s) == [kind |-> "str", text |-> s]

\* pathlib.Path(s): Path("") is PosixPath(".")
Path(s) == [kind |-> "Path", text |-> IF s = <<>> THEN <<".">> ELSE s]

\* document paths handed to the store by its callers: str (routers/document.py:27)
\* or Path (routers/document.py:35, :86)
DocInputs == {StrKey(<<"a">>), Path(<<"a">>)}

\* document paths handed to delete_document: also the document that exists
\* only as the endpoint of a connection
DeleteInputs == DocInputs \cup {Path(<<"b">>)}

\* (source, target) pairs handed to the connection operations: a pair and its reverse,
\* a tag of the same document pair, a self-edge with both endpoints on one
\* tag, and a malformed address on either side
ConnInputs ==
    {<<<<"a">>, <<"b">>>>,
     <<<<"b">>, <<"a">>>>,
     <<<<"a", ":", "t">>, <<"b">>>>,
     <<<<"a", ":", "t">>, <<"a", ":", "t">>>>,
     <<<<"a", ":", "t", ":", "t">>, <<"b">>>>,
     <<<<"a">>, <<"a", ":", "t", ":", "t">>>>}

EmptyMeta == [k \in {} |-> ""]

\* the dict {k: v}
Single(k, v) == [x \in {k} |-> v]

Put(m, k, v) == [x \in DOMAIN m \cup {k} |-> IF x = k THEN v ELSE m[x]]

Drop(m, k) == [x \in DOMAIN m \ {k} |-> m[x]]

----------------------------------------------------------------------------
(* Address Parser *)

RECURSIVE split(_)
\* path.split(":")
split(path) ==
    IF \A i \in 1..Len(path) : path[i] # ":"
    THEN <<path>>
    ELSE LET i == CHOOSE n \in 1..Len(path) :
                      path[n] = ":" /\ \A j \in 1..(n - 1) : path[j] # ":"
         IN  <<SubSeq(path, 1, i - 1)>> \o split(SubSeq(path, i + 1, Len(path)))

\* Connection.separate_path: tag is <<>> for None and <<tag>> otherwise;
\* ok = FALSE stands for the ValueError "Invalid path" (InvalidAddress)
separate_comp(comp) ==
    IF Len(comp) = 2
    THEN [ok |-> TRUE, doc |-> Path(comp[1]), tag |-> <<comp[2]>>]
    ELSE IF Len(comp) = 1
    THEN [ok |-> TRUE, doc |-> Path(comp[1]), tag |-> <<>>]
    ELSE [ok |-> FALSE, doc |-> Path(comp[1]), tag |-> <<>>]

separate_path(path) == separate_comp(split(path))

\* truth value of a tag returned by separate_path: None and "" are false
Truthy(tag) == tag # <<>> /\ tag[1] # <<>>

----------------------------------------------------------------------------
(* Filesystem adapter (external collaborator): files are named by path text *)

\* fs.path.dirname of a document path; the modelled paths hold no "/",
\* so the parent directory is the workspace root
Root == <<>>

dirname(text) == Root

\* FS.isempty(dir) for the root: no document file and no workspace.json
isempty(fs, sf, dir) == fs = {} /\ ~sf.exists

----------------------------------------------------------------------------
(* Document and Connection values *)

\* Connection.__init__
Connection(source, target) ==
    [source |-> source, target |-> target, metadata |-> EmptyMeta]

\* Connection.__eq__ with another Connection (first branch)
eq_Connection(conn, other) ==
    conn.source = other.source /\ conn.target = other.target

\* Connection.__eq__ with a tuple: isinstance(other, tuple[str, str]) raises
\* TypeError (a parameterized generic is no valid second argument), so the
\* comparison conn == (source, target) never returns
eq_tuple_raises == TRUE

\* Workspace has no attribute graph_nodes: __init__ sets workspace, graph and
\* save_file only, so evaluating self.graph_nodes raises AttributeError
has_graph_nodes == FALSE

----------------------------------------------------------------------------
(* Workspace graph store: state transformers *)

HasNode(ns, k) == k \in DOMAIN ns

\* Workspace.create_document, graph part: a new Document (empty metadata)
\* becomes the payload of node doc_path, whether or not the node exists
create_document_node(ns, doc_path) ==
    [x \in DOMAIN ns \cup {doc_path} |->
        IF x = doc_path THEN EmptyMeta ELSE ns[x]]

\* Workspace.create_document, filesystem part: the file is created if absent
create_document_file(fs, doc_path) == fs \cup {doc_path.text}

\* Workspace.get_or_create_document, graph part
get_or_create_node(ns, doc_path) ==
    IF HasNode(ns, doc_path) THEN ns ELSE create_document_node(ns, doc_path)

\* Workspace.get_or_create_document, filesystem part
get_or_create_file(ns, fs, doc_path) ==
    IF HasNode(ns, doc_path) THEN fs ELSE create_document_file(fs, doc_path)

\* create_connection lines 176-180: the tag is inserted with "" if missing
ensure_tag(ns, doc_path, tag) ==
    IF Truthy(tag) /\ tag[1] \notin DOMAIN ns[doc_path]
    THEN [ns EXCEPT ![doc_path] = Put(@, tag[1], "")]
    ELSE ns

\* graph.has_edge(u, v) of the undirected graph
has_edge(es, u, v) == {u, v} \in DOMAIN es

\* a wrong edge key: the Connection is stored on the self-edge of its source
add_connection_on_source(es, u, v, conn) ==
    IF has_edge(es, u, u)
    THEN [es EXCEPT ![{u}] = Append(@, conn)]
    ELSE [x \in DOMAIN es \cup {{u}} |-> IF x = {u} THEN <<conn>> ELSE es[x]]

\* deduplication: an equal Connection already on the edge is not appended again
add_connection_dedup(es, u, v, conn) ==
    IF has_edge(es, u, v)
    THEN IF \E i \in 1..Len(es[{u, v}]) : eq_Connection(es[{u, v}][i], conn)
         THEN es
         ELSE [es EXCEPT ![{u, v}] = Append(@, conn)]
    ELSE [x \in DOMAIN es \cup {{u, v}} |->
             IF x = {u, v} THEN <<conn>> ELSE es[x]]

\* create_connection lines 182-187
add_connection(es, u, v, conn) ==
    IF has_edge(es, u, v)
    THEN [es EXCEPT ![{u, v}] = Append(@, conn)]
    ELSE [x \in DOMAIN es \cup {{u, v}} |->
             IF x = {u, v} THEN <<conn>> ELSE es[x]]

\* graph.remove_edge(u, v)
remove_edge(es, u, v) == [x \in DOMAIN es \ {{u, v}} |-> es[x]]

\* graph.remove_node(n): the node and its incident edges go
remove_node_nodes(ns, n) == [x \in DOMAIN ns \ {n} |-> ns[x]]

\* the incident edges are emptied but stay in the graph
remove_node_edges_emptied(es, n) ==
    [x \in DOMAIN es |-> IF n \in x THEN <<>> ELSE es[x]]

remove_node_edges(es, n) == [x \in {e \in DOMAIN es : n \notin e} |-> es[x]]

\* the Connection objects held by the graph: <<edge, index in its connlist>>
ConnRefs(es) == UNION {{<<e, i>> : i \in 1..Len(es[e])} : e \in DOMAIN es}

\* number of connections held by the graph
TotalConns(es) ==
    Cardinality(UNION {{<<e, i>> : i \in 1..Len(es[e])} : e \in DOMAIN es})

\* list.remove(x): the first entry equal to x (by Connection.__eq__) goes
list_remove(cl, conn) ==
    LET i == CHOOSE n \in 1..Len(cl) :
                 eq_Connection(cl[n], conn)
                 /\ \A j \in 1..(n - 1) : ~eq_Connection(cl[j], conn)
    IN  SubSeq(cl, 1, i - 1) \o SubSeq(cl, i + 1, Len(cl))

\* graph.edges[u, v]["connlist"], empty when there is no such edge
ConnListAt(es, u, v) == IF has_edge(es, u, v) THEN es[{u, v}] ELSE <<>>

\* the scan of get_connection lines 202-208 over a connection list: the index
\* of the first match, 0 for none, -1 when the comparison raises TypeError
scan_connlist(cl, source, target) ==
    IF cl = <<>> THEN 0
    ELSE IF eq_tuple_raises THEN -1
    ELSE IF \E n \in 1..Len(cl) : cl[n].source = source /\ cl[n].target = target
    THEN CHOOSE n \in 1..Len(cl) :
             /\ cl[n].source = source /\ cl[n].target = target
             /\ \A j \in 1..(n - 1) :
                    ~(cl[j].source = source /\ cl[j].target = target)
    ELSE 0

\* the outcome of the scan: i is the result of scan_connlist over cl
scan_outcome(cl, i) ==
    IF i = -1 THEN [result |-> "TypeError", conn |-> <<>>]
    ELSE IF i = 0 THEN [result |-> "NotFound", conn |-> <<>>]
    ELSE [result |-> "ok", conn |-> <<cl[i]>>]

\* get_connection after parsing: sp and tp are the parsed source and target
get_connection_at(es, source, target, sp, tp) ==
    IF ~sp.ok \/ ~tp.ok
    THEN [result |-> "InvalidAddress", conn |-> <<>>]
    ELSE IF ~has_edge(es, sp.doc, tp.doc)
    THEN [result |-> "NotFound", conn |-> <<>>]
    ELSE scan_outcome(es[{sp.doc, tp.doc}],
                      scan_connlist(es[{sp.doc, tp.doc}], source, target))

\* Workspace.get_connection: [result, conn]; conn is <<>> unless result = "ok"
get_connection_in(es, source, target) ==
    get_connection_at(es, source, target,
                      separate_path(source), separate_path(target))

\* delete_connection lines 258-261: cl is the connlist after the removal
store_connlist(es, u, v, cl) ==
    IF Len(cl) = 0 THEN remove_edge(es, u, v) ELSE [es EXCEPT ![{u, v}] = cl]

\* delete_connection after get_connection returned got
delete_connection_at(es, sp, tp, got) ==
    IF got.result # "ok"
    THEN [result |-> got.result, edges |-> es, conn |-> <<>>]
    ELSE [result |-> "ok",
          edges |-> store_connlist(es, sp.doc, tp.doc,
                                   list_remove(es[{sp.doc, tp.doc}], got.conn[1])),
          conn |-> got.conn]

\* Workspace.delete_connection: [result, edges, conn]
delete_connection_in(es, source, target) ==
    delete_connection_at(es, separate_path(source), separate_path(target),
                         get_connection_in(es, source, target))

RECURSIVE SeqOfSet(_)
\* the elements of a finite set, in some order
SeqOfSet(S) ==
    IF S = {} THEN <<>>
    ELSE LET x == CHOOSE y \in S : TRUE IN <<x>> \o SeqOfSet(S \ {x})

RECURSIVE Flatten(_)
Flatten(ss) == IF ss = <<>> THEN <<>> ELSE Head(ss) \o Flatten(Tail(ss))

RECURSIVE Filter(_, _, _)
\* the entries of cl whose field (source or target) equals address
Filter(cl, field, address) ==
    IF cl = <<>> THEN <<>>
    ELSE (IF (IF field = "source" THEN Head(cl).source ELSE Head(cl).target)
               = address
          THEN <<Head(cl)>> ELSE <<>>) \o Filter(Tail(cl), field, address)

\* the matching Connections over the incident edges inc, in their order
collect(es, inc, field, address) ==
    Flatten([i \in 1..Len(inc) |-> Filter(es[inc[i]], field, address)])

\* get_connections_with_* after parsing: sp is the parsed address
get_connections_at(ns, es, field, address, sp) ==
    IF ~sp.ok THEN [result |-> "InvalidAddress", conns |-> <<>>]
    ELSE IF ~has_graph_nodes
    THEN [result |-> "AttributeError", conns |-> <<>>]
    ELSE IF ~HasNode(ns, sp.doc)
    THEN [result |-> "NotFound", conns |-> <<>>]
    ELSE [result |-> "ok",
          conns |-> collect(es, SeqOfSet({e \in DOMAIN es : sp.doc \in e}),
                            field, address)]

\* Workspace.get_connections_with_source / get_connections_with_target:
\* [result, conns]
get_connections_with(ns, es, field, address) ==
    get_connections_at(ns, es, field, address, separate_path(address))

RECURSIVE delete_each(_, _)
\* one turn of a loop of _delete_connections: r is the outcome of the
\* delete_connection call, rest the Connections still to delete
delete_next(r, rest) ==
    IF r.result # "ok"
    THEN [result |-> r.result, edges |-> r.edges]
    ELSE delete_each(r.edges, rest)

\* a loop of _delete_connections: [result, edges]
delete_each(es, conns) ==
    IF conns = <<>> THEN [result |-> "ok", edges |-> es]
    ELSE delete_next(
             delete_connection_in(es, Head(conns).source, Head(conns).target),
             Tail(conns))

\* the two loops of _delete_connections: r is the outcome of the first one
delete_both(r, target_conn_list) ==
    IF r.result # "ok" THEN r ELSE delete_each(r.edges, target_conn_list)

\* _delete_connections once both lists are fetched
delete_listed(es, src, tgt) ==
    IF src.result # "ok" THEN [result |-> src.result, edges |-> es]
    ELSE IF tgt.result # "ok" THEN [result |-> tgt.result, edges |-> es]
    ELSE delete_both(delete_each(es, src.conns), tgt.conns)

\* the address f"{self.parent.path}:{key}"
tag_address(doc_path, key) == doc_path.text \o <<":">> \o key

\* Document.ProtectedMetadata._delete_connections(key) of the Document at
\* node doc_path: [result, edges]
delete_connections(ns, es, doc_path, key) ==
    delete_listed(es,
        get_connections_with(ns, es, "source", tag_address(doc_path, key)),
        get_connections_with(ns, es, "target", tag_address(doc_path, key)))

\* Connection.get_source_value / get_target_value on an endpoint address:
\* the outcome ("ok" returns the tag's value)
endpoint_value_at(ns, sp) ==
    IF ~sp.ok THEN "InvalidAddress"
    ELSE IF ~HasNode(ns, sp.doc) THEN "NotFound"
    ELSE IF ~Truthy(sp.tag) THEN "NotATag"
    ELSE IF sp.tag[1] \in DOMAIN ns[sp.doc] THEN "ok"
    ELSE "NotFound"

get_endpoint_value(ns, address) == endpoint_value_at(ns, separate_path(address))

\* what get_source_value / get_target_value hand back: the outcome res and,
\* for "ok", the value doc.metadata[tag] (as <<value>>)
endpoint_returned(ns, sp, res) ==
    [result |-> res,
     value |-> IF res = "ok" THEN <<ns[sp.doc][sp.tag[1]]>> ELSE <<>>]

resolve_endpoint_value(ns, address) ==
    endpoint_returned(ns, separate_path(address), get_endpoint_value(ns, address))

----------------------------------------------------------------------------
(* Persistence codec *)

\* the metadata is replaced by the given dict instead of being merged into
update_metadata_replace(m, metadata) == metadata

\* Document.update_metadata / Connection.update_metadata / Workspace.update_metadata:
\* every pair of metadata is written into m
update_metadata_map(m, metadata) ==
    [x \in DOMAIN m \cup DOMAIN metadata |->
        IF x \in DOMAIN metadata THEN metadata[x] ELSE m[x]]

\* nx.node_link_data(graph): the node list, the link list and graph.graph;
\* ids are the node keys themselves
node_link_data(ns, es, gm) ==
    [graph |-> gm,
     nodes |-> {[id |-> k, document |-> ns[k]] : k \in DOMAIN ns},
     links |-> {[source |-> CHOOSE u \in e : TRUE,
                 target |-> IF Cardinality(e) = 1
                            THEN CHOOSE u \in e : TRUE
                            ELSE CHOOSE v \in e : v # (CHOOSE u \in e : TRUE),
                 connlist |-> es[e]] : e \in DOMAIN es}]

\* json can encode a str but not a pathlib.Path: with a Path as a node id (and
\* as Document.path) json.dumps raises TypeError
json_serializable(data) == \A n \in data.nodes : n.id.kind = "str"

\* _WorkspaceJSONEncoder.default on a Document
encode_document(path, metadata) ==
    [document_path |-> path.text, document_metadata |-> metadata]

\* _WorkspaceJSONEncoder.default on a Connection
encode_connection(conn) ==
    [connection_source |-> conn.source,
     connection_target |-> conn.target,
     connection_metadata |-> conn.metadata]

\* json.dumps(node_link_data, cls=_WorkspaceJSONEncoder) of serializable data
json_dumps(data) ==
    [graph |-> data.graph,
     nodes |-> {[id |-> n.id.text, document |-> encode_document(n.id, n.document)]
                   : n \in data.nodes},
     links |-> {[source |-> l.source.text,
                 target |-> l.target.text,
                 connlist |-> [i \in 1..Len(l.connlist) |->
                                  encode_connection(l.connlist[i])]]
                   : l \in data.links}]

\* the keys by which json_object_hook recognises an encoded Document and an
\* encoded Connection
DocKeys == {<<"document.path">>, <<"document.metadata">>}

ConnKeys ==
    {<<"connection.source">>, <<"connection.target">>, <<"connection.metadata">>}

\* json_object_hook on a JSON object that was a plain dict (a metadata dict)
\* when it was encoded: the hook looks at the keys only
hook_kind(dct) ==
    IF DocKeys \subseteq DOMAIN dct THEN "Document"
    ELSE IF ConnKeys \subseteq DOMAIN dct THEN "Connection"
    ELSE "dict"

\* the dict the hook hands to update_metadata of the object it builds
hook_metadata(dct) ==
    IF hook_kind(dct) = "Document" THEN dct[<<"document.metadata">>]
    ELSE dct[<<"connection.metadata">>]

\* update_metadata(metadata) of the hook: a non-empty str passes `if metadata:`
\* and has no items(), so AttributeError is raised
hook_raises(dct) == hook_kind(dct) # "dict" /\ hook_metadata(dct) # ""

\* what the hook returns for a plain dict when it does not raise: the dict
\* itself, or a Document / Connection object built from its entries
hooked(dct) ==
    IF hook_kind(dct) = "dict" THEN dct
    ELSE IF hook_kind(dct) = "Document"
    THEN [type |-> "Document", path |-> dct[<<"document.path">>],
          metadata |-> EmptyMeta]
    ELSE [type |-> "Connection", source |-> dct[<<"connection.source">>],
          target |-> dct[<<"connection.target">>], metadata |-> EmptyMeta]

\* json.loads(text, object_hook) raises AttributeError: a metadata dict makes
\* the hook raise, or the metadata dict of a Document or a Connection comes
\* back as an object, which the enclosing update_metadata cannot iterate
json_loads_raises(json) ==
    \/ hook_raises(json.graph)
    \/ \E n \in json.nodes :
           hook_kind(n.document.document_metadata) # "dict"
    \/ \E l \in json.links : \E i \in 1..Len(l.connlist) :
           hook_kind(l.connlist[i].connection_metadata) # "dict"

\* json_object_hook on a Document record: the metadata of the new Document
decode_document(dct) == update_metadata_map(EmptyMeta, dct.document_metadata)

\* json_object_hook on a Connection record
decode_connection(dct) ==
    [source |-> dct.connection_source,
     target |-> dct.connection_target,
     metadata |-> update_metadata_map(EmptyMeta, dct.connection_metadata)]

\* json.loads(text, object_hook) then nx.node_link_graph: every id is a str
json_loads_graph(json) ==
    [graph |-> hooked(json.graph),
     nodes |-> [k \in {StrKey(n.id) : n \in json.nodes} |->
                   decode_document(
                       (CHOOSE n \in json.nodes : StrKey(n.id) = k).document)],
     edges |-> [e \in {{StrKey(l.source), StrKey(l.target)} : l \in json.links} |->
                   LET l == CHOOSE x \in json.links :
                                {StrKey(x.source), StrKey(x.target)} = e
                   IN  [i \in 1..Len(l.connlist) |->
                           decode_connection(l.connlist[i])]]]

----------------------------------------------------------------------------
(* Operations *)

Done(op, result) == last' = [op |-> op, result |-> result]

\* Workspace.create_document(doc_path)
create_document(doc_path) ==
    /\ nodes' = create_document_node(nodes, doc_path)
    /\ files' = create_document_file(files, doc_path)
    /\ Done("create_document", "ok")
    /\ UNCHANGED <<edges, graph_meta, save_file>>

\* Workspace.get_or_create_document(doc_path)
get_or_create_document(doc_path) ==
    /\ nodes' = get_or_create_node(nodes, doc_path)
    /\ files' = get_or_create_file(nodes, files, doc_path)
    /\ Done("get_or_create_document", "ok")
    /\ UNCHANGED <<edges, graph_meta, save_file>>

\* Workspace.write_document(doc_path, content): the document is fetched or
\* created, then its file is opened for writing, which creates it if absent
write_document(doc_path) ==
    /\ nodes' = get_or_create_node(nodes, doc_path)
    /\ files' = get_or_create_file(nodes, files, doc_path) \cup {doc_path.text}
    /\ Done("write_document", "ok")
    /\ UNCHANGED <<edges, graph_meta, save_file>>

\* Workspace.update_document(doc_path, metadata): get_document raises
\* ValueError (NotFound) for a path that is no node
update_document(doc_path, metadata) ==
    /\ IF HasNode(nodes, doc_path)
       THEN /\ nodes' = [nodes EXCEPT ![doc_path] =
                            update_metadata_map(@, metadata)]
            /\ Done("update_document", "ok")
       ELSE /\ Done("update_document", "NotFound")
            /\ UNCHANGED nodes
    /\ UNCHANGED <<edges, graph_meta, files, save_file>>

\* ProtectedMetadata.__delitem__ once _delete_connections ended with r
delitem(doc_path, key, r) ==
    /\ edges' = r.edges
    /\ IF r.result # "ok"
       THEN /\ Done("delete_metadata_key", r.result)
            /\ UNCHANGED nodes
       ELSE IF key \notin DOMAIN nodes[doc_path]
       THEN /\ Done("delete_metadata_key", "KeyError")
            /\ UNCHANGED nodes
       ELSE /\ nodes' = [nodes EXCEPT ![doc_path] = Drop(@, key)]
            /\ Done("delete_metadata_key", "ok")

\* del get_document(doc_path).metadata[key]  (ProtectedMetadata.__delitem__)
delete_metadata_key(doc_path, key) ==
    /\ IF ~HasNode(nodes, doc_path)
       THEN /\ Done("delete_metadata_key", "NotFound")
            /\ UNCHANGED <<nodes, edges>>
       ELSE delitem(doc_path, key,
                    delete_connections(nodes, edges, doc_path, key))
    /\ UNCHANGED <<graph_meta, files, save_file>>

\* create_connection lines 172-180 on the nodes: both documents are fetched
\* or created, then both tags are ensured
ensure_endpoints(ns, sp, tp) ==
    ensure_tag(
        ensure_tag(get_or_create_node(get_or_create_node(ns, sp.doc), tp.doc),
                   sp.doc, sp.tag),
        tp.doc, tp.tag)

\* create_connection lines 172-174 on the filesystem
ensure_files(ns, fs, sp, tp) ==
    get_or_create_file(get_or_create_node(ns, sp.doc),
                       get_or_create_file(ns, fs, sp.doc), tp.doc)

\* the target is parsed only after the source document was fetched or created
create_connection_late_parse(source, target, sp, tp) ==
    IF ~sp.ok
    THEN /\ Done("create_connection", "InvalidAddress")
         /\ UNCHANGED <<nodes, edges, graph_meta, files, save_file>>
    ELSE IF ~tp.ok
    THEN /\ nodes' = get_or_create_node(nodes, sp.doc)
         /\ files' = get_or_create_file(nodes, files, sp.doc)
         /\ Done("create_connection", "InvalidAddress")
         /\ UNCHANGED <<edges, graph_meta, save_file>>
    ELSE /\ TotalConns(edges) < MaxConns
         /\ nodes' = ensure_endpoints(nodes, sp, tp)
         /\ files' = ensure_files(nodes, files, sp, tp)
         /\ edges' = add_connection(edges, sp.doc, tp.doc,
                                    Connection(source, target))
         /\ Done("create_connection", "ok")
         /\ UNCHANGED <<graph_meta, save_file>>

\* create_connection after parsing: sp and tp are the parsed source and target
create_connection_at(source, target, sp, tp) ==
    IF ~sp.ok \/ ~tp.ok
    THEN /\ Done("create_connection", "InvalidAddress")
         /\ UNCHANGED <<nodes, edges, graph_meta, files, save_file>>
    ELSE /\ TotalConns(edges) < MaxConns
         /\ nodes' = ensure_endpoints(nodes, sp, tp)
         /\ files' = ensure_files(nodes, files, sp, tp)
         /\ edges' = add_connection(edges, sp.doc, tp.doc,
                                    Connection(source, target))
         /\ Done("create_connection", "ok")
         /\ UNCHANGED <<graph_meta, save_file>>

\* Workspace.create_connection(source, target)
create_connection(source, target) ==
    create_connection_at(source, target,
                         separate_path(source), separate_path(target))

\* Workspace.get_connection(source, target)
get_connection(source, target) ==
    /\ Done("get_connection", get_connection_in(edges, source, target).result)
    /\ UNCHANGED <<nodes, edges, graph_meta, files, save_file>>

\* Workspace.delete_connection(source, target)
delete_connection(source, target) ==
    /\ edges' = delete_connection_in(edges, source, target).edges
    /\ Done("delete_connection", delete_connection_in(edges, source, target).result)
    /\ UNCHANGED <<nodes, graph_meta, files, save_file>>

\* Workspace.delete_document(doc_path, in_filesystem); recurse_remove_empty on
\* an empty root raises (removing the root is refused, and fs.path is no
\* attribute of the filesystem object), so the node is then left in the graph
delete_document(doc_path, in_filesystem) ==
    LET removed == in_filesystem /\ doc_path.text \in files
        fs == IF removed THEN files \ {doc_path.text} ELSE files
    IN  /\ files' = fs
        /\ IF removed /\ isempty(fs, save_file, dirname(doc_path.text))
           THEN /\ Done("delete_document", "RemoveRootError")
                /\ UNCHANGED <<nodes, edges>>
           ELSE /\ nodes' = IF HasNode(nodes, doc_path)
                            THEN remove_node_nodes(nodes, doc_path) ELSE nodes
                /\ edges' = IF HasNode(nodes, doc_path)
                            THEN remove_node_edges(edges, doc_path) ELSE edges
                /\ Done("delete_document", "ok")
        /\ UNCHANGED <<graph_meta, save_file>>

\* Workspace.update_metadata(metadata)
update_metadata(metadata) ==
    /\ graph_meta' = update_metadata_map(graph_meta, metadata)
    /\ Done("update_metadata", "ok")
    /\ UNCHANGED <<nodes, edges, files, save_file>>

\* Workspace.save(): the file is opened for writing (and so truncated) before
\* json.dumps runs
save ==
    LET data == node_link_data(nodes, edges, graph_meta)
    IN  /\ IF json_serializable(data)
           THEN /\ save_file' = [exists |-> TRUE, text |-> <<json_dumps(data)>>]
                /\ Done("save", "ok")
           ELSE /\ save_file' = [exists |-> TRUE, text |-> <<>>]
                /\ Done("save", "TypeError")
        /\ UNCHANGED <<nodes, edges, graph_meta, files>>

\* the graph is emptied before the persistence file is opened and decoded
load_reset_first ==
    IF ~save_file.exists \/ save_file.text = <<>>
                         \/ json_loads_raises(save_file.text[1])
    THEN /\ nodes' = [k \in {} |-> EmptyMeta]
         /\ edges' = [e \in {} |-> <<>>]
         /\ graph_meta' = EmptyMeta
         /\ Done("load", IF ~save_file.exists THEN "NotFound"
                         ELSE IF save_file.text = <<>> THEN "ParseError"
                         ELSE "AttributeError")
         /\ UNCHANGED <<files, save_file>>
    ELSE LET g == json_loads_graph(save_file.text[1])
         IN  /\ nodes' = g.nodes
             /\ edges' = g.edges
             /\ graph_meta' = g.graph
             /\ Done("load", "ok")
             /\ UNCHANGED <<files, save_file>>

\* Workspace.load()
load ==
    IF ~save_file.exists
    THEN /\ Done("load", "NotFound")
         /\ UNCHANGED <<nodes, edges, graph_meta, files, save_file>>
    ELSE IF save_file.text = <<>>
    THEN /\ Done("load", "ParseError")
         /\ UNCHANGED <<nodes, edges, graph_meta, files, save_file>>
    ELSE IF json_loads_raises(save_file.text[1])
    THEN /\ Done("load", "AttributeError")
         /\ UNCHANGED <<nodes, edges, graph_meta, files, save_file>>
    ELSE LET g == json_loads_graph(save_file.text[1])
         IN  /\ nodes' = g.nodes
             /\ edges' = g.edges
             /\ graph_meta' = g.graph
             /\ Done("load", "ok")
             /\ UNCHANGED <<files, save_file>>

\* Workspace.get_connections_with_source(source)
get_connections_with_source(source) ==
    /\ Done("get_connections_with_source",
            get_connections_with(nodes, edges, "source", source).result)
    /\ UNCHANGED <<nodes, edges, graph_meta, files, save_file>>

\* Workspace.get_connections_with_target(target)
get_connections_with_target(target) ==
    /\ Done("get_connections_with_target",
            get_connections_with(nodes, edges, "target", target).result)
    /\ UNCHANGED <<nodes, edges, graph_meta, files, save_file>>

\* Connection.get_source_value() of a Connection the caller holds
get_source_value(conn) ==
    /\ last' = [op |-> "get_source_value",
                result |-> resolve_endpoint_value(nodes, conn.source).result,
                value |-> resolve_endpoint_value(nodes, conn.source).value]
    /\ UNCHANGED <<nodes, edges, graph_meta, files, save_file>>

\* Connection.get_target_value() of a Connection the caller holds
get_target_value(conn) ==
    /\ last' = [op |-> "get_target_value",
                result |-> resolve_endpoint_value(nodes, conn.target).result,
                value |-> resolve_endpoint_value(nodes, conn.target).value]
    /\ UNCHANGED <<nodes, edges, graph_meta, files, save_file>>

\* Connection.update_metadata(metadata) on the Connection held at edges[e][i]
conn_update_metadata(e, i, metadata) ==
    /\ edges' = [edges EXCEPT ![e][i].metadata = update_metadata_map(@, metadata)]
    /\ Done("conn_update_metadata", "ok")
    /\ UNCHANGED <<nodes, graph_meta, files, save_file>>

\* update_connection once get_connection returned got: the Connection found
\* at index i of the connlist of edge e is updated
update_connection_at(e, i, metadata, got) ==
    /\ IF got.result # "ok"
       THEN UNCHANGED edges
       ELSE edges' = [edges EXCEPT ![e][i].metadata =
                         update_metadata_map(@, metadata)]
    /\ Done("update_connection", got.result)
    /\ UNCHANGED <<nodes, graph_meta, files, save_file>>

\* Workspace.update_connection(source, target, metadata)
update_connection(source, target, metadata) ==
    update_connection_at(
        {separate_path(source).doc, separate_path(target).doc},
        scan_connlist(ConnListAt(edges, separate_path(source).doc,
                                 separate_path(target).doc), source, target),
        metadata,
        get_connection_in(edges, source, target))

----------------------------------------------------------------------------
Init ==
    /\ nodes = [k \in {} |-> EmptyMeta]
    /\ edges = [e \in {} |-> <<>>]
    /\ graph_meta = EmptyMeta
    /\ files = {}
    /\ save_file = [exists |-> FALSE, text |-> <<>>]
    /\ last = [op |-> "init", result |-> "ok"]

Next ==
    \/ \E d \in DocInputs : create_document(d)
    \/ \E d \in DocInputs : get_or_create_document(d)
    \/ \E d \in DocInputs : write_document(d)
    \/ \E d \in DocInputs, k \in Tags, v \in Values :
           update_document(d, Single(k, v))
    \/ \E d \in DocInputs, k \in Tags : delete_metadata_key(d, k)
    \/ \E c \in ConnInputs : create_connection(c[1], c[2])
    \/ \E c \in ConnInputs : get_connection(c[1], c[2])
    \/ \E c \in ConnInputs : delete_connection(c[1], c[2])
    \/ \E d \in DeleteInputs, f \in BOOLEAN : delete_document(d, f)
    \/ \E k \in WsKeys, v \in Values : update_metadata(Single(k, v))
    \/ save
    \/ load

Spec == Init /\ [][Next]_vars

----------------------------------------------------------------------------
(* The methods of the Document and Connection objects a caller holds, and the
   queries, over a workspace of two documents joined by tag connections *)

MetaKeys == {<<"t">>, <<"u">>}

\* the dicts handed to the update_metadata methods
MetaMaps ==
    {EmptyMeta,
     Single(<<"t">>, "v"),
     [k \in MetaKeys |-> IF k = <<"t">> THEN "x" ELSE "v"]}

HeldDoc == Path(<<"a">>)

\* the (source, target) of the Connections created and held by the caller
HeldConn == <<<<"a", ":", "t">>, <<"b">>>>

\* the pairs handed to update_connection: the held one and its reverse
UpdateInputs == {HeldConn, <<HeldConn[2], HeldConn[1]>>}

QueryAddresses == {<<"a">>, <<"a", ":", "t">>, <<"b">>}

NextObjects ==
    \/ create_connection(HeldConn[1], HeldConn[2])
    \/ create_document(HeldDoc)
    \/ \E d \in {HeldDoc, Path(<<"b">>)} : delete_document(d, FALSE)
    \/ \E m \in MetaMaps : update_document(HeldDoc, m)
    \/ \E m \in MetaMaps : update_metadata(m)
    \/ \E r \in ConnRefs(edges), m \in MetaMaps :
           conn_update_metadata(r[1], r[2], m)
    \/ \E c \in UpdateInputs, m \in MetaMaps : update_connection(c[1], c[2], m)
    \/ \E a \in QueryAddresses : get_connections_with_source(a)
    \/ \E a \in QueryAddresses : get_connections_with_target(a)
    \/ get_source_value(Connection(HeldConn[1], HeldConn[2]))
    \/ get_target_value(Connection(HeldConn[1], HeldConn[2]))

SpecObjects == Init /\ [][NextObjects]_vars

----------------------------------------------------------------------------
(* The persistence codec over a workspace whose metadata dicts use the keys
   of the encoding; only str-keyed documents, which save() can encode *)

CodecKeys == {<<"t">>} \cup DocKeys

CodecDoc == StrKey(<<"a">>)

NextCodec ==
    \/ create_document(CodecDoc)
    \/ delete_document(CodecDoc, FALSE)
    \/ \E k \in CodecKeys, v \in Values : update_document(CodecDoc, Single(k, v))
    \/ \E k \in CodecKeys, v \in Values : update_metadata(Single(k, v))
    \/ save
    \/ load

SpecCodec == Init /\ [][NextCodec]_vars

----------------------------------------------------------------------------
(* The address parser on its own, over every short address *)

Alphabet == {"a", "t", ":"}

Addresses == UNION {[1..n -> Alphabet] : n \in 0..MaxLen}

\* Connection.separate_path(path), a classmethod: the store is not touched
parse_address(path) ==
    /\ last' = [op |-> "separate_path",
                result |-> IF separate_path(path).ok THEN "ok"
                           ELSE "InvalidAddress",
                path |-> path,
                doc |-> separate_path(path).doc,
                tag |-> separate_path(path).tag]
    /\ UNCHANGED <<nodes, edges, graph_meta, files, save_file>>

NextParser == \E path \in Addresses : parse_address(path)

SpecParser == Init /\ [][NextParser]_vars

----------------------------------------------------------------------------
(* Properties *)

\* the two document components of a Connection, as get_connection resolves them
EndpointDocs(conn) ==
    {separate_path(conn.source).doc, separate_path(conn.target).doc}

WellFormed(source, target) ==
    separate_path(source).ok /\ separate_path(target).ok

\* the connection list of the edge between the documents of two addresses,
\* empty when there is no such edge
ConnListOf(es, source, target) ==
    LET e == {separate_path(source).doc, separate_path(target).doc}
    IN  IF e \in DOMAIN es THEN es[e] ELSE <<>>

\* a Connection with exactly this (source, target) is held by that list
Present(es, source, target) ==
    \E i \in 1..Len(ConnListOf(es, source, target)) :
        /\ ConnListOf(es, source, target)[i].source = source
        /\ ConnListOf(es, source, target)[i].target = target

\* C1: an edge exists only with a non-empty connlist that holds a Connection
\* whose endpoints resolve to the edge's two documents; no edge ever has an
\* empty connlist.
C1_EdgeIffConnection ==
    \A e \in DOMAIN edges :
        /\ edges[e] # <<>>
        /\ \E i \in 1..Len(edges[e]) : EndpointDocs(edges[e][i]) = e

\* an edge survives the deletion of a document it is not incident to
C1_Witness ==
    /\ last = [op |-> "delete_document", result |-> "ok"]
    /\ Path(<<"b">>) \notin DOMAIN nodes
    /\ {Path(<<"a">>)} \in DOMAIN edges

\* C2: every Connection stored on the edge {A, B} has the document components
\* of its source and target equal to A and B, in either order (A = B for a
\* self-edge).
C2_ConnectionsOnOwnEdge ==
    \A e \in DOMAIN edges :
        \A i \in 1..Len(edges[e]) : EndpointDocs(edges[e][i]) = e

\* a self-edge and an edge that holds both directions of a pair are stored
C2_Witness ==
    \/ /\ {Path(<<"a">>)} \in DOMAIN edges
       /\ {Path(<<"a">>), Path(<<"b">>)} \in DOMAIN edges
    \/ /\ {Path(<<"a">>), Path(<<"b">>)} \in DOMAIN edges
       /\ Present(edges, <<"a">>, <<"b">>)
       /\ Present(edges, <<"b">>, <<"a">>)

\* C3: for every live Connection with an endpoint doc:tag, doc is a node and
\* tag is a key of its Document's metadata, so resolving the endpoint value
\* never fails with NotFound.
C3_TagsResolvable ==
    \A e \in DOMAIN edges :
        \A i \in 1..Len(edges[e]) :
            /\ (Truthy(separate_path(edges[e][i].source).tag)
                    => get_endpoint_value(nodes, edges[e][i].source) # "NotFound")
            /\ (Truthy(separate_path(edges[e][i].target).tag)
                    => get_endpoint_value(nodes, edges[e][i].target) # "NotFound")

AddressesTag(conn, address) == conn.source = address \/ conn.target = address

RECURSIVE Without(_, _)
\* the entries of a connection list that do not address the given tag address
Without(cl, address) ==
    IF cl = <<>> THEN <<>>
    ELSE (IF AddressesTag(Head(cl), address) THEN <<>> ELSE <<Head(cl)>>)
         \o Without(Tail(cl), address)

\* C4: deleting metadata key k of document d removes every Connection that
\* addresses d:k (collapsing emptied edges) and then k: afterwards k is no key
\* of d, no Connection addresses d:k, and every other Connection is still in
\* its connlist in the same relative order.
C4_DeleteKeyCascades ==
    [][last'.op = "delete_metadata_key" =>
       (\A d \in DocInputs, k \in Tags :
          (/\ delete_metadata_key(d, k)
           /\ HasNode(nodes, d)
           /\ k \in DOMAIN nodes[d])
          => /\ k \notin DOMAIN nodes'[d]
             /\ \A e \in DOMAIN edges' :
                    /\ edges'[e] # <<>>
                    /\ \A i \in 1..Len(edges'[e]) :
                           ~AddressesTag(edges'[e][i], tag_address(d, k))
             /\ \A e \in DOMAIN edges :
                    Without(edges[e], tag_address(d, k))
                        = (IF e \in DOMAIN edges' THEN edges'[e] ELSE <<>>))
      ]_vars

\* C5: save() followed by load() restores the store: save succeeds and the
\* written file decodes to the same nodes, metadata, edges, connlists and
\* workspace metadata, and load() replaces the store (whatever was changed
\* since) by what the file decodes to.
C5_SaveLoadRoundTrip ==
    [][/\ (last'.op = "save" /\ save)
             => /\ last'.result = "ok"
                /\ Len(save_file'.text) = 1
                /\ json_loads_graph(save_file'.text[1])
                       = [graph |-> graph_meta, nodes |-> nodes, edges |-> edges]
       /\ (last'.op = "load" /\ load /\ Len(save_file.text) = 1)
             => /\ last'.result = "ok"
                /\ [graph |-> graph_meta', nodes |-> nodes', edges |-> edges']
                       = json_loads_graph(save_file.text[1])
      ]_vars

\* C6: delete_connection(source, target) on a store that holds such a
\* Connection removes exactly one matching entry, keeps the others in order,
\* and keeps the edge iff its connlist is still non-empty.
C6_DeleteRemovesOne ==
    [][last'.op = "delete_connection" =>
       (\A c \in ConnInputs :
          (/\ delete_connection(c[1], c[2])
           /\ WellFormed(c[1], c[2])
           /\ Present(edges, c[1], c[2]))
          => /\ last'.result = "ok"
             /\ Len(ConnListOf(edges', c[1], c[2]))
                    = Len(ConnListOf(edges, c[1], c[2])) - 1
             /\ \E i \in 1..Len(ConnListOf(edges, c[1], c[2])) :
                    /\ ConnListOf(edges, c[1], c[2])[i].source = c[1]
                    /\ ConnListOf(edges, c[1], c[2])[i].target = c[2]
                    /\ ConnListOf(edges', c[1], c[2])
                           = SubSeq(ConnListOf(edges, c[1], c[2]), 1, i - 1)
                             \o SubSeq(ConnListOf(edges, c[1], c[2]), i + 1,
                                       Len(ConnListOf(edges, c[1], c[2])))
             /\ \A e \in DOMAIN edges' : edges'[e] # <<>>)
      ]_vars

\* the text of the document component of an address
DocText(address) == separate_path(address).doc.text

\* C7: delete_document(path) on an existing node removes the node and every
\* incident edge: afterwards the node is gone, no live Connection has path as
\* the document component of its source or target, and the other nodes, their
\* metadata and the edges not incident to path are unchanged.
C7_DeleteDocumentRemoves ==
    [][last'.op = "delete_document" =>
       (\A d \in DeleteInputs, f \in BOOLEAN :
          (delete_document(d, f) /\ HasNode(nodes, d))
          => /\ ~HasNode(nodes', d)
             /\ \A e \in DOMAIN edges' :
                    \A i \in 1..Len(edges'[e]) :
                        /\ DocText(edges'[e][i].source) # d.text
                        /\ DocText(edges'[e][i].target) # d.text
             /\ nodes' = remove_node_nodes(nodes, d)
             /\ \A e \in DOMAIN edges :
                    d \notin e => (e \in DOMAIN edges' /\ edges'[e] = edges[e]))
      ]_vars

\* C8: deleting an absent document is a no-op without error; delete_connection
\* fails with NotFound whenever no edge joins the two documents or the
\* connlist has no exact (source, target) entry, and then changes nothing.
C8_AbsentDeletions ==
    [][/\ \A d \in DeleteInputs, f \in BOOLEAN :
             (/\ last'.op = "delete_document"
              /\ delete_document(d, f)
              /\ ~HasNode(nodes, d)
              /\ d.text \notin files)
             => (last'.result = "ok" /\ UNCHANGED <<nodes, edges, graph_meta>>)
       /\ \A c \in ConnInputs :
             (/\ last'.op = "delete_connection"
              /\ delete_connection(c[1], c[2])
              /\ WellFormed(c[1], c[2])
              /\ ~Present(edges, c[1], c[2]))
             => (last'.result = "NotFound"
                 /\ UNCHANGED <<nodes, edges, graph_meta>>)
      ]_vars

\* C9: get_connection(source, target) succeeds iff a Connection with exactly
\* these strings is in the connlist of the edge between the two documents,
\* and fails with NotFound otherwise.
C9_GetConnectionExact ==
    [][last'.op = "get_connection" =>
       (\A c \in ConnInputs :
          (get_connection(c[1], c[2]) /\ WellFormed(c[1], c[2]))
          => /\ Present(edges, c[1], c[2]) => last'.result = "ok"
             /\ ~Present(edges, c[1], c[2]) => last'.result = "NotFound")
      ]_vars

\* C10: create_connection does not deduplicate: each successful call appends
\* exactly one new Connection to the end of the connlist of the edge between
\* the two documents (a singleton list if the edge was absent) and leaves
\* every other connlist as it was.
C10_CreateAppends ==
    [][last'.op = "create_connection" =>
       (\A c \in ConnInputs :
          (create_connection(c[1], c[2]) /\ WellFormed(c[1], c[2]))
          => LET e == {separate_path(c[1]).doc, separate_path(c[2]).doc}
             IN  /\ last'.result = "ok"
                 /\ DOMAIN edges' = DOMAIN edges \cup {e}
                 /\ edges'[e] = ConnListOf(edges, c[1], c[2])
                                   \o <<Connection(c[1], c[2])>>
                 /\ \A x \in DOMAIN edges : x # e => edges'[x] = edges[x])
      ]_vars

\* two equal entries, or both directions of a pair in call order, on one edge
C10_Witness ==
    /\ last = [op |-> "create_connection", result |-> "ok"]
    /\ \E e \in DOMAIN edges :
           /\ Len(edges[e]) = 2
           /\ \/ edges[e][1] = edges[e][2]
              \/ /\ edges[e][1].source = edges[e][2].target
                 /\ edges[e][1].target = edges[e][2].source
                 /\ edges[e][1].source # edges[e][1].target

\* C11: create_document(path) on a path that is already a node raises no
\* error and leaves the store as it was: the document's metadata, the edges
\* and their connections, and the backing file are the same before and after.
C11_CreateDocumentIdempotent ==
    [][last'.op = "create_document" =>
       (\A d \in DocInputs :
          (create_document(d) /\ HasNode(nodes, d))
          => /\ last'.result = "ok"
             /\ nodes' = nodes
             /\ edges' = edges
             /\ (d.text \in files => files' = files))
      ]_vars

\* a document with this path text is a node of the graph
HasDoc(ns, text) == \E k \in DOMAIN ns : k.text = text

\* the Connections of the graph whose field (source or target) is address
Matching(es, field, address) ==
    {r \in ConnRefs(es) :
        (IF field = "source" THEN es[r[1]][r[2]].source
                             ELSE es[r[1]][r[2]].target) = address}

\* what C12 expects of get_connections_with_source / _target on address
ExpectedConnections(field, address) ==
    LET r == get_connections_with(nodes, edges, field, address)
    IN  IF ~HasDoc(nodes, DocText(address))
        THEN last'.result = "NotFound"
        ELSE /\ last'.result = "ok"
             /\ Len(r.conns) = Cardinality(Matching(edges, field, address))
             /\ \A i \in 1..Len(r.conns) :
                    \E m \in Matching(edges, field, address) :
                        r.conns[i] = edges[m[1]][m[2]]

\* C12: get_connections_with_source(address) (resp. _target) fails with
\* NotFound if the document component of address is no node; otherwise it
\* returns exactly the Connections whose source (resp. target) string equals
\* address, an empty list when there is none.
C12_ConnectionsWithExact ==
    [][\A a \in QueryAddresses :
          /\ (last'.op = "get_connections_with_source"
                  /\ get_connections_with_source(a))
                => ExpectedConnections("source", a)
          /\ (last'.op = "get_connections_with_target"
                  /\ get_connections_with_target(a))
                => ExpectedConnections("target", a)
      ]_vars

\* the tags that create_connection(source, target) ensures on the document
\* with this path text
EndpointTags(source, target, text) ==
    {separate_path(x).tag[1] :
        x \in {y \in {source, target} :
                  DocText(y) = text /\ Truthy(separate_path(y).tag)}}

\* C13: create_connection(source, target) creates a Document node for each
\* endpoint document that is missing and for no other, reuses the existing
\* ones, inserts each endpoint tag that is no key yet with the empty value,
\* and changes no other metadata key, document or edge.
C13_LazyEndpoints ==
    [][last'.op = "create_connection" =>
       (\A c \in ConnInputs :
          (create_connection(c[1], c[2]) /\ WellFormed(c[1], c[2]))
          => /\ last'.result = "ok"
             /\ DOMAIN nodes \subseteq DOMAIN nodes'
             /\ \A x \in {DocText(c[1]), DocText(c[2])} : HasDoc(nodes', x)
             /\ \A k \in DOMAIN nodes' \ DOMAIN nodes :
                    /\ k.text \in {DocText(c[1]), DocText(c[2])}
                    /\ ~HasDoc(nodes, k.text)
             /\ \A k \in DOMAIN nodes : \A j \in DOMAIN nodes[k] :
                    j \in DOMAIN nodes'[k] /\ nodes'[k][j] = nodes[k][j]
             /\ \A k \in DOMAIN nodes' : \A j \in DOMAIN nodes'[k] :
                    (k \notin DOMAIN nodes \/ j \notin DOMAIN nodes[k])
                    => /\ nodes'[k][j] = ""
                       /\ j \in EndpointTags(c[1], c[2], k.text)
             /\ \A x \in {DocText(c[1]), DocText(c[2])} :
                    \A j \in EndpointTags(c[1], c[2], x) :
                        \E k \in DOMAIN nodes' :
                            k.text = x /\ j \in DOMAIN nodes'[k]
             /\ \A e \in DOMAIN edges :
                    e # {separate_path(c[1]).doc, separate_path(c[2]).doc}
                    => (e \in DOMAIN edges' /\ edges'[e] = edges[e]))
      ]_vars

\* the number of separators of an address
Colons(path) == Cardinality({i \in 1..Len(path) : path[i] = ":"})

\* the position of the first separator of an address that has one
FirstColon(path) ==
    CHOOSE i \in 1..Len(path) :
        path[i] = ":" /\ \A j \in 1..(i - 1) : path[j] # ":"

\* C14: the parser maps an address without ':' to (the whole string, no
\* tag), an address with one ':' to (the left part, the right part), fails
\* with InvalidAddress on two or more ':', and leaves the store alone.
C14_ParserCases ==
    [][\A p \in Addresses :
          (last'.op = "separate_path" /\ parse_address(p))
          => /\ Colons(p) = 0
                  => /\ last'.result = "ok"
                     /\ last'.doc = StrKey(p)
                     /\ last'.tag = <<>>
             /\ Colons(p) = 1
                  => /\ last'.result = "ok"
                     /\ last'.doc = StrKey(SubSeq(p, 1, FirstColon(p) - 1))
                     /\ last'.tag = <<SubSeq(p, FirstColon(p) + 1, Len(p))>>
             /\ Colons(p) >= 2 => last'.result = "InvalidAddress"
             /\ UNCHANGED <<nodes, edges, graph_meta, files, save_file>>
      ]_vars

\* the documents of the graph at the document component of address that
\* have the tag of address as a metadata key
TagOwners(ns, address) ==
    {k \in DOMAIN ns :
        /\ k.text = DocText(address)
        /\ separate_path(address).tag[1] \in DOMAIN ns[k]}

\* what C15 expects of resolving the endpoint address
ExpectedValue(address) ==
    IF ~Truthy(separate_path(address).tag)
    THEN last'.result = "NotATag"
    ELSE IF TagOwners(nodes, address) = {}
    THEN last'.result = "NotFound"
    ELSE /\ last'.result = "ok"
         /\ \E k \in TagOwners(nodes, address) :
                last'.value = <<nodes[k][separate_path(address).tag[1]]>>

\* C15: resolving an endpoint of a Connection fails with NotATag whenever the
\* address has no tag, with NotFound when it has a tag but the document is no
\* node or the tag no key of its metadata, and otherwise returns the tag's
\* current value.
C15_ResolveEndpointValue ==
    [][/\ (last'.op = "get_source_value"
              /\ get_source_value(Connection(HeldConn[1], HeldConn[2])))
            => ExpectedValue(HeldConn[1])
       /\ (last'.op = "get_target_value"
              /\ get_target_value(Connection(HeldConn[1], HeldConn[2])))
            => ExpectedValue(HeldConn[2])
      ]_vars

\* C16: save() succeeds from every reachable store state, also when the
\* persistence file is absent (never NotFound); load() fails with NotFound
\* when the file does not exist and with ParseError when its content is not
\* well-formed.
C16_SaveLoadFailures ==
    [][/\ (last'.op = "save" /\ save)
            => (last'.result = "ok" /\ save_file'.exists)
       /\ (last'.op = "load" /\ load /\ ~save_file.exists)
            => last'.result = "NotFound"
       /\ (last'.op = "load" /\ load /\ save_file.exists
              /\ save_file.text = <<>>)
            => last'.result = "ParseError"
      ]_vars

\* C17: delete_document(path, in_filesystem = TRUE) on an existing file
\* deletes the file and prunes the emptied directories above it without
\* error: the workspace root is never removed, nor is its removal attempted,
\* even when the root itself becomes empty, and no other file goes.
C17_PruningStopsAtRoot ==
    [][last'.op = "delete_document" =>
       (\A d \in DeleteInputs :
          (delete_document(d, TRUE) /\ d.text \in files)
          => /\ last'.result = "ok"
             /\ files' = files \ {d.text})
      ]_vars

\* new is old with every pair of map written into it and nothing else changed
MergedInto(old, new, map) ==
    /\ DOMAIN new = DOMAIN old \cup DOMAIN map
    /\ \A k \in DOMAIN map : new[k] = map[k]
    /\ \A k \in DOMAIN old \ DOMAIN map : new[k] = old[k]
    /\ map = EmptyMeta => new = old

\* the Connections of es2 are those of es, the one at r apart, which keeps
\* its source and target
SameConnectionsBut(es, es2, r) ==
    /\ DOMAIN es2 = DOMAIN es
    /\ \A e \in DOMAIN es :
           /\ Len(es2[e]) = Len(es[e])
           /\ \A i \in 1..Len(es[e]) :
                  IF <<e, i>> = r
                  THEN /\ es2[e][i].source = es[e][i].source
                       /\ es2[e][i].target = es[e][i].target
                  ELSE es2[e][i] = es[e][i]

\* C18: update_metadata(map) on a Document, a Connection or the Workspace
\* sets each key of map to its value, overwriting, leaves every other key
\* unchanged, removes no key, deletes no connection and is a no-op on the
\* empty map; update_connection propagates the NotFound of get_connection
\* and then changes no metadata.
C18_UpdateMetadataMerges ==
    [][/\ \A m \in MetaMaps :
             (/\ last'.op = "update_document"
              /\ update_document(HeldDoc, m)
              /\ HasNode(nodes, HeldDoc))
             => /\ last'.result = "ok"
                /\ MergedInto(nodes[HeldDoc], nodes'[HeldDoc], m)
                /\ DOMAIN nodes' = DOMAIN nodes
                /\ \A k \in DOMAIN nodes : k # HeldDoc => nodes'[k] = nodes[k]
                /\ UNCHANGED <<edges, graph_meta>>
       /\ \A m \in MetaMaps :
             (last'.op = "update_metadata" /\ update_metadata(m))
             => /\ last'.result = "ok"
                /\ MergedInto(graph_meta, graph_meta', m)
                /\ UNCHANGED <<nodes, edges>>
       /\ \A r \in ConnRefs(edges), m \in MetaMaps :
             (/\ last'.op = "conn_update_metadata"
              /\ conn_update_metadata(r[1], r[2], m))
             => /\ last'.result = "ok"
                /\ MergedInto(edges[r[1]][r[2]].metadata,
                              edges'[r[1]][r[2]].metadata, m)
                /\ SameConnectionsBut(edges, edges', r)
                /\ UNCHANGED <<nodes, graph_meta>>
       /\ \A c \in UpdateInputs, m \in MetaMaps :
             (/\ last'.op = "update_connection"
              /\ update_connection(c[1], c[2], m)
              /\ get_connection_in(edges, c[1], c[2]).result = "NotFound")
             => /\ last'.result = "NotFound"
                /\ UNCHANGED <<nodes, edges, graph_meta>>
      ]_vars

\* a document update has overwritten the value of one key and kept another
\* key, under a live Connection whose own metadata was updated as well
C18_Witness ==
    /\ last = [op |-> "update_document", result |-> "ok"]
    /\ HasNode(nodes, HeldDoc)
    /\ nodes[HeldDoc] = [k \in MetaKeys |-> "v"]
    /\ \E r \in ConnRefs(edges) :
           edges[r[1]][r[2]].metadata = [k \in MetaKeys |-> "v"]
    /\ graph_meta = [k \in MetaKeys |-> "v"]

\* C19: update_document(doc_path, metadata) on a path that is no node yet
\* creates the document and applies the metadata, as write_document creates
\* a missing document before writing; neither fails with NotFound.
C19_UpdateCreatesMissing ==
    [][/\ \A d \in DocInputs, k \in Tags, v \in Values :
             (/\ last'.op = "update_document"
              /\ update_document(d, Single(k, v))
              /\ ~HasNode(nodes, d))
             => /\ last'.result = "ok"
                /\ HasNode(nodes', d)
                /\ nodes'[d] = Single(k, v)
       /\ \A d \in DocInputs :
             (/\ last'.op = "write_document"
              /\ write_document(d)
              /\ ~HasNode(nodes, d))
             => /\ last'.result = "ok"
                /\ HasNode(nodes', d)
                /\ d.text \in files'
      ]_vars

\* C20: a save() that fails leaves the persistence file as the previous
\* save left it (or as the complete new save): no load() afterwards finds a
\* file that is there but does not parse.
C20_AtomicSave ==
    [][/\ (last'.op = "save" /\ save /\ last'.result # "ok")
            => save_file' = save_file
       /\ (last'.op = "load" /\ load) => last'.result # "ParseError"
      ]_vars

\* C21: load() restores every plain value as it was encoded: the workspace
\* metadata and the metadata of every document come back as the plain
\* mappings that save() wrote, whatever their keys.
C21_DecodeInvertsEncode ==
    [][(last'.op = "load" /\ load /\ Len(save_file.text) = 1)
          => /\ last'.result = "ok"
             /\ graph_meta' = save_file.text[1].graph
             /\ \A n \in save_file.text[1].nodes :
                    /\ HasNode(nodes', StrKey(n.id))
                    /\ nodes'[StrKey(n.id)] = n.document.document_metadata
      ]_vars

\* the nodes of the graph for the document with this path text
NodesOf(ns, text) == {k \in DOMAIN ns : k.text = text}

\* C22: a document path identifies at most one node: after create_connection
\* the graph holds exactly one node for each endpoint path, the edge is
\* incident to it and it carries the endpoint's tag; get_or_create_document
\* on an existing path adds no node and keeps the metadata; get_document
\* fails with NotFound only when no node for the path exists.
C22_OneNodePerPath ==
    [][/\ \A c \in ConnInputs :
             (/\ last'.op = "create_connection"
              /\ create_connection(c[1], c[2])
              /\ WellFormed(c[1], c[2]))
             => \A x \in {c[1], c[2]} :
                    /\ Cardinality(NodesOf(nodes', DocText(x))) = 1
                    /\ \A k \in NodesOf(nodes', DocText(x)) :
                           /\ k \in {separate_path(c[1]).doc,
                                     separate_path(c[2]).doc}
                           /\ Truthy(separate_path(x).tag)
                                  => separate_path(x).tag[1] \in DOMAIN nodes'[k]
       /\ \A d \in DocInputs :
             (/\ last'.op = "get_or_create_document"
              /\ get_or_create_document(d)
              /\ HasDoc(nodes, d.text))
             => nodes' = nodes
       /\ \A d \in DocInputs, k \in Tags, v \in Values :
             (/\ last'.op = "update_document"
              /\ update_document(d, Single(k, v))
              /\ last'.result = "NotFound")
             => ~HasDoc(nodes, d.text)
      ]_vars

\* no Connection of the graph addresses the tag address
Unreferenced(es, address) ==
    \A r \in ConnRefs(es) : ~AddressesTag(es[r[1]][r[2]], address)

\* C23: for every key k in the metadata of an existing document d, deleting
\* k runs to completion without raising, whatever connections reference d:k;
\* with no such connection it is the plain removal of k.
C23_DeleteKeyCompletes ==
    [][last'.op = "delete_metadata_key" =>
       (\A d \in DocInputs, k \in Tags :
          (/\ delete_metadata_key(d, k)
           /\ HasNode(nodes, d)
           /\ k \in DOMAIN nodes[d])
          => /\ last'.result = "ok"
             /\ Unreferenced(edges, tag_address(d, k))
                    => (nodes' = [nodes EXCEPT ![d] = Drop(@, k)]
                        /\ edges' = edges))
      ]_vars

\* C24: create_connection with a malformed source or target fails with
\* InvalidAddress before any mutation: no node, file, tag key, edge or
\* connlist entry is added, even when the other address is well-formed.
C24_MalformedCreatesNothing ==
    [][last'.op = "create_connection" =>
       (\A c \in ConnInputs :
          (create_connection(c[1], c[2]) /\ ~WellFormed(c[1], c[2]))
          => /\ last'.result = "InvalidAddress"
             /\ UNCHANGED <<nodes, edges, graph_meta, files, save_file>>)
      ]_vars

\* a malformed call was refused while the documents of its addresses, the
\* well-formed one included, are neither nodes nor files
C24_Witness ==
    /\ last = [op |-> "create_connection", result |-> "InvalidAddress"]
    /\ ~HasDoc(nodes, <<"a">>) /\ ~HasDoc(nodes, <<"b">>)
    /\ files = {}
    /\ graph_meta # EmptyMeta

\* C25: a load() that fails (persistence file absent, or content that cannot
\* be decoded) leaves nodes, document metadata, edges, connlists and workspace
\* metadata as they were: the graph is replaced only by a load that succeeds.
C25_FailedLoadKeepsStore ==
    [][last'.op = "load" =>
       /\ load
       /\ (last'.result # "ok" => UNCHANGED <<nodes, edges, graph_meta>>)
       /\ (<<nodes, edges, graph_meta>>' # <<nodes, edges, graph_meta>>
             => last'.result = "ok")
      ]_vars

\* a load has failed on a persistence file emptied by a failed save, with
\* documents, a connection and workspace metadata in memory
C25_Witness ==
    /\ last = [op |-> "load", result |-> "ParseError"]
    /\ DOMAIN nodes # {}
    /\ TotalConns(edges) > 0
    /\ graph_meta # EmptyMeta

\* a load has failed for want of a persistence file, with documents, a
\* connection and workspace metadata in memory
C25_WitnessAbsent ==
    /\ last = [op |-> "load", result |-> "NotFound"]
    /\ DOMAIN nodes # {}
    /\ TotalConns(edges) > 0
    /\ graph_meta # EmptyMeta

====
